---- MODULE Spec2Model ----
(***************************************************************************)
(* Model of the slideshow pipeline of create_video_ui.py: get_exif_data,   *)
(* process_image, get_audio_duration, process_audio_for_video,             *)
(* is_encoder_available and create_video, driven either by                 *)
(* VideoCreatorApp.run_creation or by a direct call of create_video.       *)
(*                                                                         *)
(* Python strings are modelled as sequences of tokens (<<>> is the empty   *)
(* string), an unbound or None value as the empty sequence <<>> and a      *)
(* bound value v as <<v>>.  The outcome of every external tool invocation  *)
(* is an input chosen nondeterministically.                                *)
(***************************************************************************)
EXTENDS Integers, Sequences, FiniteSets, TLC

\* ---------------------------------------------------------------- bounds
MaxImages == 2
MaxDuration == 2
MaxAudioDuration == 2
MaxLines == 2
MaxWidth == 3000

\* ------------------------------------------------------- get_exif_data
\* One stdout line after .replace(' ', '').split(':'): a sequence of fields.
LineMake == <<"Make", "Canon">>
LineISO == <<"ISO", "100">>
LineShutter == <<"ShutterSpeed", "1/200">>
LineFNumber == <<"FNumber", "2.8">>
\* ''.split(':') is [''] : the only "line" of an empty stdout
LineEmpty == <<"">>
LineNoColon == <<"Warning">>

\* result.stdout.strip().split('\n') for the outputs the metadata tool can give
ExifStdouts ==
  { <<LineMake, LineISO, LineShutter, LineFNumber>>,
    <<LineMake, LineISO, LineShutter>>,
    <<LineISO, LineShutter, LineFNumber>>,
    <<LineMake>>,
    <<LineEmpty>>,
    <<LineMake, LineNoColon, LineShutter, LineFNumber>> }

\* outcomes of subprocess.run([exiftool ...]) : it ran and printed lines,
\* the executable is missing (FileNotFoundError), or it never exits
ExifOutcomes ==
  { [kind |-> "ran", lines |-> l] : l \in ExifStdouts }
    \cup { [kind |-> "missing", lines |-> <<>>],
           [kind |-> "hang", lines |-> <<>>] }

\* lines 22-26: subprocess.run is given no timeout argument (<<>> is None)
ExifTimeout == <<>>

NoExif == [kind |-> "notcalled", lines |-> <<>>]

\* lines[k].replace(' ', '').split(':')[1] if len(lines) > k else 'N/A'
\* (k is the 0-based python index); <<>> stands for IndexError
ExifField(lines, k) ==
  IF Len(lines) > k
    THEN IF Len(lines[k + 1]) >= 2 THEN <<lines[k + 1][2]>> ELSE <<>>
    ELSE <<"N/A">>

\* the record of the except branch: only two keys
ExifFailureRecord == [iso |-> "N/A", shutter |-> "N/A"]

\* exc is "none" for a returned record, the exception raised otherwise, or
\* "blocked" when the call never returns
get_exif_data(out) ==
  IF out.kind = "missing"
    THEN [exc |-> "none", value |-> ExifFailureRecord]
  ELSE IF out.kind = "hang"
    THEN [exc |-> IF ExifTimeout = <<>> THEN "blocked" ELSE "TimeoutExpired",
          value |-> ExifFailureRecord]
    ELSE LET mk == ExifField(out.lines, 0)
             is == ExifField(out.lines, 1)
             sh == ExifField(out.lines, 2)
             fn == ExifField(out.lines, 3)
         IN IF mk = <<>> \/ is = <<>> \/ sh = <<>> \/ fn = <<>>
              THEN [exc |-> "IndexError", value |-> ExifFailureRecord]
              ELSE [exc |-> "none",
                    value |-> [make |-> mk[1], iso |-> is[1],
                               shutter |-> sh[1], fnumber |-> fn[1]]]

\* ------------------------------------------------------- process_image
ProbeOutcomes == {"ok", "nonzero", "timeout", "missing", "short", "nonint"}
ComposeOutcomes == {"ok", "nonzero", "timeout", "missing"}

Today == "<date>"
DefaultCaption == <<"Processed", Today>>
ExifCaption(e) ==
  <<e.make, "f/", e.fnumber, e.shutter, "s", "ISO", e.iso>>

\* lines 79-82: the short-circuit test on the three fields, then the
\* f-string; a key that is looked up and absent is a KeyError
CaptionFromExif(e) ==
  IF "iso" \notin DOMAIN e THEN [exc |-> "KeyError", text |-> <<>>]
  ELSE IF e.iso = "N/A" THEN [exc |-> "none", text |-> DefaultCaption]
  ELSE IF "shutter" \notin DOMAIN e THEN [exc |-> "KeyError", text |-> <<>>]
  ELSE IF e.shutter = "N/A" THEN [exc |-> "none", text |-> DefaultCaption]
  ELSE IF "fnumber" \notin DOMAIN e THEN [exc |-> "KeyError", text |-> <<>>]
  ELSE IF e.fnumber = "N/A" THEN [exc |-> "none", text |-> DefaultCaption]
  ELSE IF "make" \notin DOMAIN e THEN [exc |-> "KeyError", text |-> <<>>]
  ELSE [exc |-> "none", text |-> ExifCaption(e)]

\* lines 76-82: caption selection
SelectCaption(text, exifOut) ==
  IF text # <<>>
    THEN [exc |-> "none", text |-> text, exif |-> NoExif]
    ELSE LET r == get_exif_data(exifOut)
         IN IF r.exc # "none"
              THEN [exc |-> r.exc, text |-> <<>>, exif |-> exifOut]
              ELSE [exc |-> CaptionFromExif(r.value).exc,
                    text |-> CaptionFromExif(r.value).text,
                    exif |-> exifOut]

PIResult(ret, exc, caption, exif) ==
  [ret |-> ret, exc |-> exc, caption |-> caption, exif |-> exif]

\* process_image(input_path, output_path, text) under the given tool outcomes
process_image(text, probe, exifOut, compose) ==
  IF probe = "missing" THEN PIResult(FALSE, "FileNotFoundError", <<>>, NoExif)
  ELSE IF probe # "ok" THEN PIResult(FALSE, "none", <<>>, NoExif)
  ELSE LET c == SelectCaption(text, exifOut)
       IN IF c.exc # "none" THEN PIResult(FALSE, c.exc, <<>>, c.exif)
          ELSE IF compose = "missing"
            THEN PIResult(FALSE, "FileNotFoundError", c.text, c.exif)
          ELSE IF compose # "ok" THEN PIResult(FALSE, "none", c.text, c.exif)
          ELSE PIResult(TRUE, "none", c.text, c.exif)

\* variant of IntOf: round to the nearest integer instead of truncating
IntRounded(a, b) == (2 * a + b) \div (2 * b)

\* int(a / b) for integers a >= 0, b > 0 : the fraction is dropped
IntOf(a, b) == a \div b

Max(a, b) == IF a >= b THEN a ELSE b

\* lines 66-85: the canvas geometry for a source of width w; the factors
\* 9/16, 0.2 and 0.025 are the fractions 9/16, 1/5 and 1/40
FrameSpec(w) ==
  LET bg_height == IntOf(w * 9, 16)
      info_height == IntOf(bg_height, 5)
      total_height == bg_height + info_height
  IN [bg_width |-> w,
      bg_height |-> bg_height,
      info_height |-> info_height,
      total_height |-> total_height,
      font_size |-> Max(40, IntOf(total_height, 40))]

\* -------------------------------------------------- get_audio_duration
\* outcomes of the ffprobe duration query: it printed JSON holding a
\* duration, it timed out, its output is not JSON, the JSON has no
\* format/duration key, the duration is not a number, or the executable
\* is missing
AudioDurations == -1 .. MaxAudioDuration
AudioProbeOutcomes ==
  { [kind |-> "ok", dur |-> s] : s \in AudioDurations }
    \cup { [kind |-> k, dur |-> 0] :
             k \in {"timeout", "badjson", "nokey", "nonnumeric", "missing"} }

get_audio_duration(out) ==
  IF out.kind = "ok" THEN [exc |-> "none", value |-> out.dur]
  ELSE IF out.kind \in {"timeout", "badjson", "nokey"}
    THEN [exc |-> "none", value |-> 0]
  ELSE IF out.kind = "nonnumeric" THEN [exc |-> "ValueError", value |-> 0]
  ELSE [exc |-> "FileNotFoundError", value |-> 0]

\* --------------------------------------------- process_audio_for_video
AudioToolOutcomes == {"ok", "nonzero", "timeout", "missing"}

\* variant of Ceil: integer division in place of math.ceil
CeilTruncated(a, b) == a \div b

\* math.ceil(a / b) for integers a >= 0, b > 0
Ceil(a, b) == (a + b - 1) \div b

AudioResult(exc, value, cmd) == [exc |-> exc, value |-> value, cmd |-> cmd]

process_audio_for_video(probeOut, video_duration, tool) ==
  LET a == get_audio_duration(probeOut)
  IN IF a.exc # "none" THEN AudioResult(a.exc, <<>>, <<>>)
     ELSE IF a.value <= 0 THEN AudioResult("none", <<>>, <<>>)
     ELSE LET cmd == [stream_loop |-> Ceil(video_duration, a.value),
                      t |-> video_duration]
          IN IF tool = "missing"
               THEN AudioResult("FileNotFoundError", <<>>, <<cmd>>)
             ELSE IF tool # "ok" THEN AudioResult("none", <<>>, <<cmd>>)
             ELSE AudioResult("none", <<"processed_audio.mp3">>, <<cmd>>)

\* ------------------------------------------------ is_encoder_available
CodecProbeOutcomes == {"listed", "notlisted", "missing", "timeout"}

is_encoder_available(out) == out = "listed"

\* lines 243-252
SelectCodec(out) == IF is_encoder_available(out) THEN "libx264" ELSE "h264"

\* -------------------------------------------------------- create_video
VARIABLES
  pc,               \* position of the worker thread
  caller,           \* "none", "run_creation" or "direct"
  total_images,     \* len(image_paths)
  duration,         \* seconds per image
  music,            \* TRUE iff an audio path was passed
  progress_callback,\* TRUE iff a callback was passed
  text,             \* caption text handed to run_creation
  temp_dir,         \* TRUE iff the scratch directory exists
  i,                \* index of the next image of the loop
  processed_images, \* the frames appended so far
  last,             \* result of the latest process_image call
  exif_calls,       \* number of get_exif_data calls of the run
  total_duration,   \* <<>> until line 232
  final_audio,      \* <<>> is None
  audio_cmd,        \* <<>> until the conditioning tool is invoked
  audio_in,         \* tool outcomes consumed by process_audio_for_video
  video_codec,      \* <<>> until the codec probe
  ffmpeg_cmd,       \* <<>> until the mux command is built
  proc,             \* mux process: "none", "running", "exited"
  exit_code,        \* exit status of the mux process
  lines_read,       \* lines read from proc.stdout
  progress,         \* the local variable progress, <<>> while unbound
  returncode,       \* <<>> while unbound
  calls,            \* the progress callbacks issued, in order
  ret,              \* <<>> or <<value returned by create_video>>
  exc,              \* exception that left create_video, or "none"
  create_btn,       \* state of the Create button: "normal" or "disabled"
  progress_var,     \* value of the progress bar, a fraction <<num, den>>
  progress_label,   \* text of the progress label
  cb_thread,        \* thread that ran the widget updates of the latest
                    \* progress callback, "none" before the first one
  temp_img_list,    \* TRUE iff temp_img_list.txt exists
  extra_runs,       \* worker threads started while a run was still active
  width,            \* source width reported by the dimension probe
  frame_spec        \* <<>> or <<geometry computed by process_image>>

\* the arguments of the run
args == <<total_images, duration, music, progress_callback, text>>

\* the locals of create_video and what it leaves behind
locals == <<temp_dir, i, processed_images, last, exif_calls, total_duration,
            final_audio, audio_cmd, audio_in, video_codec, ffmpeg_cmd, proc,
            exit_code, lines_read, progress, returncode, calls, ret, exc>>

\* the widgets a progress callback writes
ui == <<progress_var, progress_label, cb_thread>>

\* the rest of the window
app == <<create_btn, temp_img_list, extra_runs>>

\* the geometry computation of process_image
geom == <<width, frame_spec>>

vars == <<pc, caller, args, locals, ui, app, geom>>

UserTexts == {<<>>, <<"Hello">>}

NoCall == PIResult(FALSE, "none", <<>>, NoExif)
NoAudioIn == [kind |-> "notcalled", dur |-> 0, tool |-> "unused"]

\* a number shown by the progress widgets, as the fraction n/1
Num(n) == <<n, 1>>

\* lines 512-522
update_progress_label(current, total, phase) ==
  IF phase = "processing" THEN <<"processing", current, total>>
  ELSE IF phase = "compiling"
    THEN IF total[1] = 0 THEN <<"compiling">> ELSE <<"compiling", current>>
  ELSE IF current[1] = 0 THEN <<"ready">> ELSE <<"done", current>>

NoArgs ==
  /\ total_images = 0
  /\ duration = 1
  /\ music = FALSE
  /\ progress_callback = FALSE
  /\ text = <<>>

\* the state of a create_video call at its first line
FreshLocals ==
  /\ temp_dir = FALSE
  /\ i = 0
  /\ processed_images = <<>>
  /\ last = NoCall
  /\ exif_calls = 0
  /\ total_duration = <<>>
  /\ final_audio = <<>>
  /\ audio_cmd = <<>>
  /\ audio_in = NoAudioIn
  /\ video_codec = <<>>
  /\ ffmpeg_cmd = <<>>
  /\ proc = "none"
  /\ exit_code = 0
  /\ lines_read = 0
  /\ progress = <<>>
  /\ returncode = <<>>
  /\ calls = <<>>
  /\ ret = <<>>
  /\ exc = "none"

\* the arguments and locals are gone when the worker thread ends
ResetRun ==
  /\ total_images' = 0
  /\ duration' = 1
  /\ music' = FALSE
  /\ progress_callback' = FALSE
  /\ text' = <<>>
  /\ temp_dir' = FALSE
  /\ i' = 0
  /\ processed_images' = <<>>
  /\ last' = NoCall
  /\ exif_calls' = 0
  /\ total_duration' = <<>>
  /\ final_audio' = <<>>
  /\ audio_cmd' = <<>>
  /\ audio_in' = NoAudioIn
  /\ video_codec' = <<>>
  /\ ffmpeg_cmd' = <<>>
  /\ proc' = "none"
  /\ exit_code' = 0
  /\ lines_read' = 0
  /\ progress' = <<>>
  /\ returncode' = <<>>
  /\ calls' = <<>>
  /\ ret' = <<>>
  /\ exc' = "none"

\* lines 491-501: no thread, progress 0, label "ready", button enabled
Init ==
  /\ pc = "idle"
  /\ caller = "none"
  /\ NoArgs
  /\ FreshLocals
  /\ create_btn = "normal"
  /\ progress_var = Num(0)
  /\ progress_label = update_progress_label(Num(0), Num(0), "none")
  /\ cb_thread = "none"
  /\ temp_img_list = FALSE
  /\ extra_runs = 0
  /\ width = 0
  /\ frame_spec = <<>>

\* lines 209-211: mkdtemp, processed_images = [], total_images
Enter(n, d, m, cb) ==
  /\ total_images' = n
  /\ duration' = d
  /\ music' = m
  /\ progress_callback' = cb
  /\ temp_dir' = TRUE
  /\ i' = 0
  /\ processed_images' = <<>>
  /\ pc' = "loop"
  /\ UNCHANGED <<last, exif_calls, total_duration, final_audio, audio_cmd,
                 audio_in, video_codec, ffmpeg_cmd, proc, exit_code,
                 lines_read, progress, returncode, calls, ret, exc>>

\* a run started from the window has not yet finished its worker thread
RunActive == caller = "run_creation" /\ pc # "idle"

\* a ttk button invokes its command only while it is not disabled
Clickable(btn) == btn = "normal"

\* variant of ButtonAfterStart: the button is left enabled
ButtonLeftEnabled == "normal"

\* line 813: self.create_btn.config(state=tk.DISABLED)
ButtonAfterStart == "disabled"

\* lines 774-824: the Create button is clicked.  Invalid input ends in an
\* error dialog; otherwise the widgets are reset, the button is disabled
\* and the worker thread is started with the inputs read from the window.
StartCreation ==
  /\ caller \in {"none", "run_creation"}
  /\ Clickable(create_btn)
  /\ extra_runs = 0
  /\ \E n \in 0 .. MaxImages, d \in 0 .. MaxDuration, m \in BOOLEAN,
        t \in UserTexts :
       IF n = 0 \/ d <= 0
         THEN UNCHANGED vars
         ELSE /\ UNCHANGED geom
              /\ progress_var' = Num(0)
              /\ progress_label' = <<"starting">>
              /\ create_btn' = ButtonAfterStart
              /\ UNCHANGED <<cb_thread, temp_img_list, locals>>
              /\ IF RunActive
                   THEN /\ extra_runs' = extra_runs + 1
                        /\ UNCHANGED <<pc, caller, args>>
                   ELSE /\ pc' = "spawned"
                        /\ caller' = "run_creation"
                        /\ total_images' = n
                        /\ duration' = d
                        /\ music' = m
                        /\ progress_callback' = TRUE
                        /\ text' = t
                        /\ UNCHANGED extra_runs

\* lines 826-848: the worker thread writes temp_img_list.txt and calls
\* create_video with the progress callback; text is not passed on
RunCreation ==
  /\ pc = "spawned"
  /\ temp_img_list' = TRUE
  /\ Enter(total_images, duration, music, TRUE)
  /\ UNCHANGED <<caller, text, create_btn, extra_runs, ui, geom>>

\* create_video called through its signature, progress_callback=None
DirectCall ==
  /\ pc = "idle"
  /\ caller = "none"
  /\ \E n \in 1 .. MaxImages, d \in 1 .. MaxDuration, m \in BOOLEAN :
       /\ caller' = "direct"
       /\ text' = <<>>
       /\ Enter(n, d, m, FALSE)
  /\ UNCHANGED <<ui, app, geom>>

\* lines 832-841: the progress value the callback of run_creation computes
CallbackProgress(current, total, phase) ==
  IF phase = "processing"
    THEN IF current > total THEN Num(70) ELSE <<current * 70, total>>
    ELSE IF current > 100 THEN Num(100) ELSE <<7000 + 30 * current, 100>>

\* lines 830-841: progress_callback calls progress_var.set and
\* update_progress_label itself, on the thread that runs create_video
CallbackThread == "worker"

\* the effect on the window of the callbacks an action has issued
DeliverCallbacks(newcalls) ==
  IF caller = "run_creation" /\ Len(newcalls) > Len(calls)
    THEN LET c == newcalls[Len(newcalls)]
             v == CallbackProgress(c[1], c[2], c[3])
         IN /\ progress_var' = v
            /\ progress_label' = update_progress_label(v, Num(100), "none")
            /\ cb_thread' = CallbackThread
    ELSE UNCHANGED ui

\* lines 850-861: the result is shown in a message box; on success the
\* progress bar is set to 100 first
RunCreationResult ==
  /\ caller = "run_creation"
  /\ pc \in {"returned", "raised"}
  /\ IF pc = "returned" /\ ret = <<TRUE>>
       THEN /\ progress_var' = Num(100)
            /\ progress_label' =
                 update_progress_label(Num(100), Num(100), "none")
            /\ UNCHANGED cb_thread
       ELSE UNCHANGED ui
  /\ pc' = "dialog"
  /\ UNCHANGED <<caller, args, locals, app, geom>>

\* lines 863-872: once the message box is closed, temp_img_list.txt is
\* removed, the button is enabled again and the thread ends
RunCreationFinally ==
  /\ pc = "dialog"
  /\ temp_img_list' = FALSE
  /\ create_btn' = "normal"
  /\ progress_label' = update_progress_label(Num(100), Num(100), "none")
  /\ pc' = "idle"
  /\ ResetRun
  /\ UNCHANGED <<caller, progress_var, cb_thread, extra_runs, geom>>

\* line 217: process_image(img_path, output_path) - the text parameter keeps
\* its default ""
CaptionArgument(t) == <<>>

\* variant of ProcessingArgs: the 0-based loop index is reported
ProcessingArgsZeroBased(k, n) == <<k, n, "processing">>

\* line 222: the arguments of the "processing" callback for loop index k
ProcessingArgs(k, n) == <<k + 1, n, "processing">>

\* variant of CallsAfterImage: the callback sits after the if/else, so it
\* is issued for a skipped image too
CallsAfterEveryAttempt(cs, ok, cb, k, n) ==
  IF cb THEN Append(cs, ProcessingArgs(k, n)) ELSE cs

\* lines 217-224: what one loop iteration appends to the callback log
CallsAfterImage(cs, ok, cb, k, n) ==
  IF ok /\ cb THEN Append(cs, ProcessingArgs(k, n)) ELSE cs

\* lines 214-224: one iteration of the loop
ProcessImageStep ==
  /\ pc = "loop"
  /\ i < total_images
  /\ \E p \in ProbeOutcomes, e \in ExifOutcomes, c \in ComposeOutcomes :
       LET r == process_image(CaptionArgument(text), p, e, c)
       IN /\ last' = r
          /\ exif_calls' = exif_calls + (IF r.exif.kind = "notcalled" THEN 0 ELSE 1)
          /\ IF r.exc = "blocked"
               THEN /\ pc' = "hung"
                    /\ UNCHANGED <<i, processed_images, calls, exc>>
             ELSE IF r.exc # "none"
               THEN /\ pc' = "raised"
                    /\ exc' = r.exc
                    /\ UNCHANGED <<i, processed_images, calls>>
               ELSE /\ i' = i + 1
                    /\ processed_images' =
                         IF r.ret
                           THEN Append(processed_images,
                                       [index |-> i, caption |-> r.caption])
                           ELSE processed_images
                    /\ calls' = CallsAfterImage(calls, r.ret, progress_callback,
                                                i, total_images)
                    /\ UNCHANGED <<pc, exc>>
  /\ UNCHANGED <<caller, total_images, duration, music, progress_callback,
                 text, temp_dir, total_duration, final_audio, audio_cmd, audio_in,
                 video_codec, ffmpeg_cmd, proc, exit_code, lines_read,
                 progress, returncode, ret>>
  /\ DeliverCallbacks(calls')
  /\ UNCHANGED <<app, geom>>

\* variant of NoValidImages: the emptiness test never fires
NoValidImagesNever(ps) == Len(ps) < 0

\* line 226: if not processed_images
NoValidImages(ps) == Len(ps) = 0

\* line 232
TotalDuration(ps, d) == Len(ps) * d

\* lines 226-232: the end of the loop
LoopExit ==
  /\ pc = "loop"
  /\ i = total_images
  /\ IF NoValidImages(processed_images)
       THEN /\ temp_dir' = FALSE
            /\ ret' = <<FALSE>>
            /\ pc' = "returned"
            /\ UNCHANGED total_duration
       ELSE /\ total_duration' = <<TotalDuration(processed_images, duration)>>
            /\ pc' = IF music THEN "audio" ELSE "probe"
            /\ UNCHANGED <<temp_dir, ret>>
  /\ UNCHANGED <<caller, total_images, duration, music, progress_callback,
                 text, i, processed_images, last, exif_calls, final_audio,
                 audio_cmd, audio_in, video_codec, ffmpeg_cmd, proc, exit_code,
                 lines_read, progress, returncode, calls, exc>>
  /\ UNCHANGED <<ui, app, geom>>

\* lines 236-240: background music
AudioConditioning ==
  /\ pc = "audio"
  /\ \E a \in AudioProbeOutcomes, t \in AudioToolOutcomes :
       LET r == process_audio_for_video(a, total_duration[1], t)
       IN /\ audio_cmd' = r.cmd
          /\ audio_in' = [kind |-> a.kind, dur |-> a.dur,
                          tool |-> IF r.cmd = <<>> THEN "unused" ELSE t]
          /\ IF r.exc # "none"
               THEN /\ pc' = "raised"
                    /\ exc' = r.exc
                    /\ UNCHANGED final_audio
               ELSE /\ final_audio' = r.value
                    /\ pc' = "probe"
                    /\ UNCHANGED exc
  /\ UNCHANGED <<caller, total_images, duration, music, progress_callback,
                 text, temp_dir, i, processed_images, last, exif_calls,
                 total_duration, video_codec, ffmpeg_cmd, proc, exit_code,
                 lines_read, progress, returncode, calls, ret>>
  /\ UNCHANGED <<ui, app, geom>>

\* lines 243-252: encoder selection
EncoderProbe ==
  /\ pc = "probe"
  /\ \E o \in CodecProbeOutcomes : video_codec' = <<SelectCodec(o)>>
  /\ pc' = "notify"
  /\ UNCHANGED <<caller, total_images, duration, music, progress_callback,
                 text, temp_dir, i, processed_images, last, exif_calls,
                 total_duration, final_audio, audio_cmd, audio_in, ffmpeg_cmd, proc,
                 exit_code, lines_read, progress, returncode, calls, ret, exc>>
  /\ UNCHANGED <<ui, app, geom>>

\* variant of HasAudio: the audio options are added whenever the step is
\* reached, whatever the conditioner returned
HasAudioAlways(fa) == TRUE

\* lines 262 and 275: if final_audio
HasAudio(fa) == fa # <<>>

\* lines 255-284: the mux command; framerate is 1/duration
BuildMuxCmd(d, fa, codec) ==
  [framerate_den |-> d,
   input |-> "frame_%04d.png",
   audio_input |-> IF HasAudio(fa) THEN fa ELSE <<>>,
   codec |-> codec,
   map_audio |-> HasAudio(fa),
   an |-> ~HasAudio(fa)]

\* line 292: the arguments of the first "compiling" callback
CompilingStartArgs == <<0, 0, "compiling">>

\* lines 255-292: build the command, announce the compiling phase
NotifyCompiling ==
  /\ pc = "notify"
  /\ ffmpeg_cmd' = <<BuildMuxCmd(duration, final_audio, video_codec[1])>>
  /\ calls' = IF progress_callback THEN Append(calls, CompilingStartArgs)
                                   ELSE calls
  /\ pc' = "popen"
  /\ UNCHANGED <<caller, total_images, duration, music, progress_callback,
                 text, temp_dir, i, processed_images, last, exif_calls,
                 total_duration, final_audio, audio_cmd, audio_in, video_codec, proc,
                 exit_code, lines_read, progress, returncode, ret, exc>>
  /\ DeliverCallbacks(calls')
  /\ UNCHANGED <<app, geom>>

\* line 296: subprocess.Popen starts the mux, or raises (caught at line 314)
Popen ==
  /\ pc = "popen"
  /\ \/ /\ proc' = "running"
        /\ pc' = "mux"
        /\ UNCHANGED returncode
     \/ /\ returncode' = <<-1>>
        /\ pc' = "cleanup"
        /\ UNCHANGED proc
  /\ UNCHANGED <<caller, total_images, duration, music, progress_callback,
                 text, temp_dir, i, processed_images, last, exif_calls,
                 total_duration, final_audio, audio_cmd, audio_in, video_codec,
                 ffmpeg_cmd, exit_code, lines_read, progress, calls, ret, exc>>
  /\ UNCHANGED <<ui, app, geom>>

\* line 306: 70 + 30 * (proc.poll() is None) / 2
MuxProgress(running) == IF running THEN 85 ELSE 70

\* lines 303-307: one line read from proc.stdout
MuxLine ==
  /\ pc = "mux"
  /\ lines_read < MaxLines
  /\ lines_read' = lines_read + 1
  /\ IF progress_callback
       THEN /\ progress' = <<MuxProgress(proc = "running")>>
            /\ calls' = Append(calls, <<MuxProgress(proc = "running"), 100,
                                        "compiling">>)
       ELSE UNCHANGED <<progress, calls>>
  /\ UNCHANGED <<pc, caller, total_images, duration, music, progress_callback,
                 text, temp_dir, i, processed_images, last, exif_calls,
                 total_duration, final_audio, audio_cmd, audio_in, video_codec,
                 ffmpeg_cmd, proc, exit_code, returncode, ret, exc>>
  /\ DeliverCallbacks(calls')
  /\ UNCHANGED <<app, geom>>

\* the mux process exits (output it wrote may still be unread)
MuxProcExit ==
  /\ pc = "mux"
  /\ proc = "running"
  /\ proc' = "exited"
  /\ \E rc \in {0, 1} : exit_code' = rc
  /\ UNCHANGED <<pc, caller, total_images, duration, music, progress_callback,
                 text, temp_dir, i, processed_images, last, exif_calls,
                 total_duration, final_audio, audio_cmd, audio_in, video_codec,
                 ffmpeg_cmd, lines_read, progress, returncode, calls, ret, exc>>
  /\ UNCHANGED <<ui, app, geom>>

\* lines 303, 312-313: end of output, proc.wait(), returncode
MuxWait ==
  /\ pc = "mux"
  /\ proc = "exited"
  /\ returncode' = <<exit_code>>
  /\ pc' = "cleanup"
  /\ UNCHANGED <<caller, total_images, duration, music, progress_callback,
                 text, temp_dir, i, processed_images, last, exif_calls,
                 total_duration, final_audio, audio_cmd, audio_in, video_codec,
                 ffmpeg_cmd, proc, exit_code, lines_read, progress, calls,
                 ret, exc>>
  /\ UNCHANGED <<ui, app, geom>>

\* line 328: progress_callback(progress, 100, "compiling")
FinalArgs(p) == <<p, 100, "compiling">>

\* lines 319-329: remove the scratch directory, report the result
Finish ==
  /\ pc = "cleanup"
  /\ temp_dir' = FALSE
  /\ IF returncode # <<0>>
       THEN /\ ret' = <<FALSE>>
            /\ pc' = "returned"
            /\ UNCHANGED <<calls, exc>>
       ELSE IF progress = <<>>
         THEN /\ pc' = "raised"
              /\ exc' = "UnboundLocalError"
              /\ UNCHANGED <<calls, ret>>
       ELSE IF ~progress_callback
         THEN /\ pc' = "raised"
              /\ exc' = "TypeError"
              /\ UNCHANGED <<calls, ret>>
       ELSE /\ calls' = Append(calls, FinalArgs(progress[1]))
            /\ ret' = <<TRUE>>
            /\ pc' = "returned"
            /\ UNCHANGED exc
  /\ UNCHANGED <<caller, total_images, duration, music, progress_callback,
                 text, i, processed_images, last, exif_calls, total_duration,
                 final_audio, audio_cmd, audio_in, video_codec, ffmpeg_cmd, proc,
                 exit_code, lines_read, progress, returncode>>
  /\ DeliverCallbacks(calls')
  /\ UNCHANGED <<app, geom>>

Next ==
  \/ StartCreation
  \/ RunCreation
  \/ DirectCall
  \/ ProcessImageStep
  \/ LoopExit
  \/ AudioConditioning
  \/ EncoderProbe
  \/ NotifyCompiling
  \/ Popen
  \/ MuxLine
  \/ MuxProcExit
  \/ MuxWait
  \/ Finish
  \/ RunCreationResult
  \/ RunCreationFinally

Spec == Init /\ [][Next]_vars

\* process_image applied to one image whose dimension probe reports any
\* width of the range: the window is in its initial state
GeomInit ==
  /\ pc = "idle"
  /\ caller = "none"
  /\ NoArgs
  /\ FreshLocals
  /\ create_btn = "normal"
  /\ progress_var = Num(0)
  /\ progress_label = update_progress_label(Num(0), Num(0), "none")
  /\ cb_thread = "none"
  /\ temp_img_list = FALSE
  /\ extra_runs = 0
  /\ width \in 1 .. MaxWidth
  /\ frame_spec = <<>>

\* lines 66-85
ComputeFrameSpec ==
  /\ frame_spec = <<>>
  /\ frame_spec' = <<FrameSpec(width)>>
  /\ UNCHANGED <<pc, caller, args, locals, ui, app, width>>

GeomSpec == GeomInit /\ [][ComputeFrameSpec]_vars

\* the steps of the worker thread, with the exit of the mux process
Worker ==
  \/ RunCreation
  \/ ProcessImageStep
  \/ LoopExit
  \/ AudioConditioning
  \/ EncoderProbe
  \/ NotifyCompiling
  \/ Popen
  \/ MuxLine
  \/ MuxProcExit
  \/ MuxWait
  \/ Finish
  \/ RunCreationResult
  \/ RunCreationFinally

\* the worker thread is scheduled whenever it can take a step, the mux
\* process eventually exits and the message box of the result is closed
FairSpec == Spec /\ WF_vars(Worker)

TypeOK ==
  /\ pc \in {"idle", "spawned", "dialog", "loop", "audio", "probe", "notify", "popen", "mux",
             "cleanup", "returned", "raised", "hung"}
  /\ i \in 0 .. MaxImages
  /\ Len(processed_images) <= i

\* ------------------------------------------------------------- claims
Ended == pc \in {"returned", "raised"}

Phase(c) == c[3]
ProcessingCalls == SelectSeq(calls, LAMBDA c : Phase(c) = "processing")
CompilingCalls == SelectSeq(calls, LAMBDA c : Phase(c) = "compiling")

\* C1: once create_video has ended, by returning True or False or by an
\* exception, the scratch directory created at its start no longer exists.
C1_ScratchRemovedAtEnd == Ended => ~temp_dir

C3_SuccessReturnsTrue ==
  (Ended /\ returncode = <<0>>) =>
     /\ pc = "returned" /\ ret = <<TRUE>>
     /\ total_duration = <<Len(processed_images) * duration>>

\* C4 as stated: with a callback, the number of "processing" callbacks
\* issued equals the number of image attempts completed, failed ones included.
C4_CallbackPerAttempt ==
  progress_callback => Len(ProcessingCalls) = i

\* C4 amended: with a callback, a "processing" callback is issued exactly
\* once after each successfully composed image and not after a failed one:
\* the k-th "processing" callback reports the k-th composed frame, so a run
\* over N images of which M are composed issues exactly M such callbacks.
C4_CallbackPerSuccess ==
  progress_callback =>
     /\ Len(ProcessingCalls) = Len(processed_images)
     /\ \A k \in 1 .. Len(processed_images) :
          ProcessingCalls[k] =
            <<processed_images[k].index + 1, total_images, "processing">>

C4_Witness ==
  /\ progress_callback /\ pc # "loop" /\ i = total_images
  /\ Len(processed_images) >= 1 /\ Len(processed_images) < i
  /\ Len(ProcessingCalls) = Len(processed_images)

\* C5: create_video never ends by raising an exception to its caller.
C5_NeverRaises == pc # "raised"

\* C6: in a run that returned True the last progress callback issued is
\* (100, 100, "compiling").
C6_LastCallbackIs100 ==
  (pc = "returned" /\ ret = <<TRUE>>) =>
     /\ calls # <<>>
     /\ calls[Len(calls)] = <<100, 100, "compiling">>

\* the failures of audio conditioning that C7 lists: duration unavailable
\* or non-positive, non-zero exit of the conditioning tool, or its timeout
AudioFailedListed ==
  \/ audio_in.kind \in {"timeout", "badjson", "nokey"}
  \/ audio_in.kind = "ok" /\ audio_in.dur <= 0
  \/ audio_in.kind = "ok" /\ audio_in.dur > 0
       /\ audio_in.tool \in {"nonzero", "timeout"}

C8_PhaseOrder ==
  /\ \A j, k \in 1 .. Len(calls) :
       (j < k /\ Phase(calls[j]) = "compiling") => Phase(calls[k]) = "compiling"
  /\ CompilingCalls # <<>> => CompilingCalls[1] = <<0, 0, "compiling">>
  /\ pc = "popen" => proc = "none"
  /\ (progress_callback /\ (proc # "none" \/ returncode # <<>>)) =>
       CompilingCalls # <<>>
  /\ (progress_callback /\ pc \notin {"idle", "spawned", "loop", "raised"}
        /\ Len(processed_images) = total_images) =>
       ProcessingCalls = [k \in 1 .. total_images |->
                            <<k, total_images, "processing">>]

C8_Witness ==
  /\ progress_callback /\ total_images >= 2
  /\ Len(processed_images) = total_images
  /\ pc = "returned" /\ ret = <<TRUE>>
  /\ Len(CompilingCalls) >= 3

\* the field values C9 speaks of, read off the tool output: "N/A" when the
\* tool is missing or the line is absent or has no value
C9_Value(out, k) ==
  IF out.kind = "ran" /\ Len(out.lines) >= k /\ Len(out.lines[k]) >= 2
    THEN out.lines[k][2] ELSE "N/A"

C9_Expected(out) ==
  IF C9_Value(out, 2) # "N/A" /\ C9_Value(out, 3) # "N/A"
       /\ C9_Value(out, 4) # "N/A"
    THEN <<C9_Value(out, 1), "f/", C9_Value(out, 4), C9_Value(out, 3), "s",
           "ISO", C9_Value(out, 2)>>
    ELSE DefaultCaption

\* C9: whenever process_image consulted the metadata extractor (no caption
\* text) and the extractor call came back, caption selection did not fail and the caption is the full EXIF
\* string if iso, shutter and fnumber are all available, and the date-stamped
\* default otherwise.
C9_CaptionSelection ==
  last.exif.kind \in {"ran", "missing"} =>
     /\ last.exc \notin {"IndexError", "KeyError"}
     /\ last.caption = C9_Expected(last.exif)

\* C10: in a run started by run_creation with non-empty caption text every
\* composed frame carries that text and the metadata extractor is not called.
C10_UserCaptionUsed ==
  (caller = "run_creation" /\ text # <<>>) =>
     /\ \A k \in 1 .. Len(processed_images) :
          processed_images[k].caption = text
     /\ exif_calls = 0

\* the numbers of the frame files written by the run, in order
FrameIndices == [k \in 1 .. Len(processed_images) |-> processed_images[k].index]

\* C11: once the loop is over with M composed frames, the frame files are
\* numbered 0 .. M-1 without a gap, in the order of the images, so the
\* numbered-sequence input frame_%04d.png covers all M of them.
C11_FramesContiguous ==
  (pc \notin {"idle", "spawned", "loop", "raised", "hung"}) =>
     FrameIndices = [k \in 1 .. Len(processed_images) |-> k - 1]

\* C12: given that the mux process eventually exits, every run that has
\* entered create_video eventually ends it, by a return or an exception: no
\* other external tool can keep the run waiting without limit.
C12_RunTerminates == (pc = "loop") ~> (pc \in {"returned", "raised"})

\* the four keys of ImageMetadata
ExifKeys == {"make", "iso", "shutter", "fnumber"}

\* C14: whatever the metadata tool did (missing, fewer than four lines, no
\* output, a line without a colon), get_exif_data raised nothing and
\* returned a record with the four fields make, iso, shutter, fnumber.
C14_ExifNeverFails ==
  last.exif.kind \in {"ran", "missing"} =>
     /\ get_exif_data(last.exif).exc = "none"
     /\ DOMAIN get_exif_data(last.exif).value = ExifKeys

C13_UpdatesOnUIThread == cb_thread # "worker"

\* the positions at which a create_video call is in progress
CreateVideoRunning ==
  pc \in {"loop", "audio", "probe", "notify", "popen", "mux", "cleanup",
          "hung"}

\* the number of create_video executions of the window in progress
InProgress ==
  (IF caller = "run_creation" /\ CreateVideoRunning THEN 1 ELSE 0) + extra_runs

\* a run of the window has ended its create_video call
RunEnded == caller = "run_creation" /\ pc \in {"returned", "raised"}

IsRound(a, n, d) == 2 * d * a <= 2 * n + d /\ 2 * n + d < 2 * d * (a + 1)

\* a is n/d with the fraction dropped
IsFloor(a, n, d) == d * a <= n /\ n < d * (a + 1)

\* C15 as stated: the geometry is obtained by rounding to the nearest
\* integer: backgroundHeight = round(w * 9/16), infoHeight =
\* round(backgroundHeight * 0.2), totalHeight = their sum, fontSize =
\* max(40, round(totalHeight * 0.025)), backgroundWidth = w.
C15_GeometryRounded ==
  frame_spec # <<>> =>
     LET g == frame_spec[1]
     IN /\ g.bg_width = width
        /\ IsRound(g.bg_height, 9 * width, 16)
        /\ IsRound(g.info_height, g.bg_height, 5)
        /\ g.total_height = g.bg_height + g.info_height
        /\ \E f \in 0 .. g.total_height :
             IsRound(f, g.total_height, 40) /\ g.font_size = Max(40, f)

\* C15 amended: the same formulas with the fraction dropped (int(), i.e.
\* floor for these non-negative values) in place of rounding.
C15_GeometryTruncated ==
  frame_spec # <<>> =>
     LET g == frame_spec[1]
     IN /\ g.bg_width = width
        /\ IsFloor(g.bg_height, 9 * width, 16)
        /\ IsFloor(g.info_height, g.bg_height, 5)
        /\ g.total_height = g.bg_height + g.info_height
        /\ \E f \in 0 .. g.total_height :
             IsFloor(f, g.total_height, 40) /\ g.font_size = Max(40, f)

C15_Witness ==
  /\ width = 3000 /\ frame_spec # <<>>
  /\ frame_spec[1].bg_height = 1687 /\ frame_spec[1].info_height = 337
  /\ frame_spec[1].font_size = 50

====
